---- MODULE Spec2Model ----
(***************************************************************************)
(* A model of djangocms-content-expiry: the default-duration resolver and  *)
(* expiry date calculator (utils.py), the changelist filters and their     *)
(* links (filters.py, helpers.py), the CSV export of the filtered          *)
(* changelist and the admin's permissions (admin.py), and the app          *)
(* extension and site exclusion of page content (cms_config.py).           *)
(*                                                                         *)
(* Querysets are sequences of rows in primary-key order; a filter keeps    *)
(* the rows that satisfy its predicate, in order.  A call returns Ok(rows) *)
(* or, when it raises, Raise(exception).                                   *)
(***************************************************************************)
EXTENDS Integers, Sequences, FiniteSets, TLC

VARIABLES
    default_duration,   \* conf.DEFAULT_CONTENT_EXPIRY_DURATION (months), a setting
    config,             \* DefaultContentExpiryConfiguration table, rows in pk order
    records,            \* ContentExpiry table joined with its version, rows in pk order
    now,                \* the wall clock, in ticks
    request,            \* the arguments of the call under study
    last,               \* what was done last: its name and, for a call, what it returned
    expiry_changelist_queryset_filters, \* of the ContentExpiryExtension instance
    cache               \* the page-content exclusion cache of the process

vars == <<default_duration, config, records, now, request, last,
          expiry_changelist_queryset_filters, cache>>

\* The state of the running process: the app extension and the cache.
process_state == <<expiry_changelist_queryset_filters, cache>>

(***************************************************************************)
(* Bounds of the model.                                                    *)
(***************************************************************************)
MaxConfigs == 2         \* rows of the DefaultContentExpiryConfiguration table
MaxRecords == 2         \* rows of the ContentExpiry table

Durations == {0, 1, 11, 13, 25}             \* months a configuration row may hold
DefaultDurations == {6, 12}                 \* values of the global default setting
Years == {2023, 2024}                       \* a common year and a leap year
Days == {1, 28, 29, 30, 31}

(***************************************************************************)
(* Content types.  1 is the base model of a polymorphic hierarchy, 2 a     *)
(* concrete subtype of it, 3 and 4 are plain (non polymorphic) models.     *)
(***************************************************************************)
ContentTypes == {1, 2, 3, 4}
PolymorphicTypes == {1, 2}

(***************************************************************************)
(* Calendar: calendar.monthrange and datetime's validity of a date.        *)
(***************************************************************************)
IsLeap(y) == (y % 4 = 0) /\ ((y % 100 # 0) \/ (y % 400 = 0))

DaysInMonth(y, m) ==
    IF m = 2 THEN (IF IsLeap(y) THEN 29 ELSE 28)
    ELSE IF m \in {4, 6, 9, 11} THEN 30 ELSE 31

ValidDate(dt) ==
    /\ dt.month \in 1..12
    /\ dt.day \in 1..DaysInMonth(dt.year, dt.month)

Dates ==
    {dt \in [year : Years, month : 1..12, day : Days] : ValidDate(dt)}

Min(a, b) == IF a <= b THEN a ELSE b

(***************************************************************************)
(* dateutil's relativedelta(months=n): the constructor normalises months   *)
(* beyond 11 into years (_fix), and date + delta adds the years, then the  *)
(* months with a carry, and last clamps the day to the target month.       *)
(***************************************************************************)
relativedelta(n) == [years |-> n \div 12, months |-> n % 12]

AddDelta(dt, delta) ==
    LET y0 == dt.year + delta.years
        m0 == dt.month + delta.months
        y  == IF m0 > 12 THEN y0 + 1 ELSE y0
        m  == IF m0 > 12 THEN m0 - 12 ELSE m0
    IN  [year |-> y, month |-> m, day |-> Min(DaysInMonth(y, m), dt.day)]

(***************************************************************************)
(* Strings.  A query string value is a sequence of lexemes: a digit, a     *)
(* word (a state name, the _all_ sentinel, the junk word x) or the comma.  *)
(***************************************************************************)
Strings(alphabet, n) == UNION {[1..k -> alphabet] : k \in 0..n}

Digits == <<"0", "1", "2", "3", "4", "5", "6", "7", "8", "9">>

IsDigit(c) == \E i \in 1..Len(Digits) : Digits[i] = c

DigitValue(c) == (CHOOSE i \in 1..Len(Digits) : Digits[i] = c) - 1

\* int(s) succeeds: s is a non-empty run of digits
IsInt(s) == s # <<>> /\ \A i \in 1..Len(s) : IsDigit(s[i])

RECURSIVE ToInt(_)
ToInt(s) ==
    IF s = <<>> THEN 0
    ELSE ToInt(SubSeq(s, 1, Len(s) - 1)) * 10 + DigitValue(s[Len(s)])

\* str(n) for n >= 0
RECURSIVE ToStr(_)
ToStr(n) ==
    IF n < 10 THEN <<Digits[n + 1]>>
    ELSE Append(ToStr(n \div 10), Digits[(n % 10) + 1])

\* s.split(',')
RECURSIVE Split(_)
Split(s) ==
    IF \A i \in 1..Len(s) : s[i] # ","
    THEN <<s>>
    ELSE LET i == CHOOSE k \in 1..Len(s) :
                      s[k] = "," /\ \A j \in 1..(k - 1) : s[j] # ","
         IN  <<SubSeq(s, 1, i - 1)>> \o Split(SubSeq(s, i + 1, Len(s)))

(***************************************************************************)
(* request.GET: a function from the parameter names present to their       *)
(* values.  SimpleListFilter.value() is the parameter's value, or None     *)
(* when the parameter is absent; an absent and an empty value are falsy.   *)
(***************************************************************************)
Present(GET, parameter_name) == parameter_name \in DOMAIN GET

Truthy(GET, parameter_name) ==
    Present(GET, parameter_name) /\ GET[parameter_name] # <<>>

(***************************************************************************)
(* Querysets and what a call returns: the rows, or the exception raised.   *)
(***************************************************************************)
Ok(rows) == [error |-> "", rows |-> rows]

Raise(exception) == [error |-> exception, rows |-> <<>>]

Ids(queryset) == {queryset[i].id : i \in 1..Len(queryset)}

(***************************************************************************)
(* djangocms_versioning.constants                                          *)
(***************************************************************************)
PUBLISHED == "published"

VERSION_STATES == <<"archived", "draft", "published", "unpublished">>

(***************************************************************************)
(* Time.  The clock counts ticks, TicksPerDay to the day; a date is a day  *)
(* number.  datetime.combine(date, time.min) is the first tick of the day, *)
(* datetime.combine(date, time.max) its last.                              *)
(***************************************************************************)
TicksPerDay == 2

DefaultWindowDays == 30

MaxTicks == 1           \* ticks the clock advances

StartTick == 100 * TicksPerDay + 1

timedelta(days) == days * TicksPerDay

combine_min(date) == date * TicksPerDay

combine_max(date) == date * TicksPerDay + (TicksPerDay - 1)

Tick ==
    /\ now < StartTick + MaxTicks
    /\ now' = now + 1
    /\ last' = [op |-> "tick"]
    /\ UNCHANGED <<default_duration, config, records, request, process_state>>

(***************************************************************************)
(* utils.py                                                                *)
(***************************************************************************)
_get_version_content_model_content_type(version) == version.content_type

\* A resolver that forgets to filter the table by content type.
get_default_duration_unfiltered(version) ==
    IF config # <<>> THEN relativedelta(config[1].duration)
    ELSE relativedelta(default_duration)

get_default_duration_for_version(version) ==
    LET content_type == _get_version_content_model_content_type(version)
        default_configuration ==
            SelectSeq(config, LAMBDA row : row.content_type = content_type)
    IN  IF default_configuration # <<>>
        THEN relativedelta(default_configuration[1].duration)
        ELSE relativedelta(default_duration)

\* A calculator that adds the months without clamping the day.
get_future_expire_date_unclamped(version, date) ==
    LET r == AddDelta(date, get_default_duration_for_version(version))
    IN  [r EXCEPT !.day = date.day]

get_future_expire_date(version, date) ==
    AddDelta(date, get_default_duration_for_version(version))

(***************************************************************************)
(* The DefaultContentExpiryConfiguration admin: add, change and delete a   *)
(* row.  A content type has at most one row.                               *)
(***************************************************************************)
AddDefaultConfiguration(content_type, duration) ==
    /\ Len(config) < MaxConfigs
    /\ \A i \in 1..Len(config) : config[i].content_type # content_type
    /\ config' = Append(config, [content_type |-> content_type, duration |-> duration])
    /\ last' = [op |-> "admin"]
    /\ UNCHANGED <<default_duration, records, now, request, process_state>>

ChangeDefaultConfiguration(i, duration) ==
    /\ i \in 1..Len(config)
    /\ config[i].duration # duration
    /\ config' = [config EXCEPT ![i].duration = duration]
    /\ last' = [op |-> "admin"]
    /\ UNCHANGED <<default_duration, records, now, request, process_state>>

DeleteDefaultConfiguration(i) ==
    /\ i \in 1..Len(config)
    /\ config' = SubSeq(config, 1, i - 1) \o SubSeq(config, i + 1, Len(config))
    /\ last' = [op |-> "admin"]
    /\ UNCHANGED <<default_duration, records, now, request, process_state>>

(***************************************************************************)
(* Calls of the two utils.py functions.                                    *)
(***************************************************************************)
CallGetDefaultDuration ==
    /\ last' = [op |-> "get_default_duration_for_version",
                result |-> get_default_duration_for_version(request.version)]
    /\ UNCHANGED <<default_duration, config, records, now, request, process_state>>

CallGetFutureExpireDate ==
    /\ last' = [op |-> "get_future_expire_date",
                result |-> get_future_expire_date(request.version, request.date)]
    /\ UNCHANGED <<default_duration, config, records, now, request, process_state>>

Versions == [content_type : {1, 3}]

InitExpiry ==
    /\ expiry_changelist_queryset_filters = <<>>
    /\ cache = <<>>
    /\ default_duration \in DefaultDurations
    /\ config = <<>>
    /\ records = <<>>
    /\ now = StartTick
    /\ request \in [version : Versions, date : Dates]
    /\ last = [op |-> "none"]

NextExpiry ==
    \/ \E c \in {1, 3, 4}, d \in Durations : AddDefaultConfiguration(c, d)
    \/ \E i \in 1..MaxConfigs, d \in Durations : ChangeDefaultConfiguration(i, d)
    \/ \E i \in 1..MaxConfigs : DeleteDefaultConfiguration(i)
    \/ CallGetDefaultDuration
    \/ CallGetFutureExpireDate

SpecExpiry == InitExpiry /\ [][NextExpiry]_vars

Months(delta) == delta.years * 12 + delta.months

EntriesFor(content_type) ==
    {i \in 1..Len(config) : config[i].content_type = content_type}

(***************************************************************************)
(* C1: get_default_duration_for_version returns the duration of the entry  *)
(* whose content type is the version's when there is one, and the global   *)
(* default when there is none; it returns a duration in both cases.        *)
(***************************************************************************)
C1_DefaultDuration ==
    last.op = "get_default_duration_for_version" =>
        LET entries == EntriesFor(request.version.content_type)
        IN  /\ Months(last.result) \in Nat
            /\ \A i \in entries : Months(last.result) = config[i].duration
            /\ entries = {} => Months(last.result) = default_duration

\* An entry for another content type precedes the matching one in the table.
C1_Witness ==
    /\ last.op = "get_default_duration_for_version"
    /\ Len(config) = 2
    /\ config[2].content_type = request.version.content_type
    /\ config[1].duration # config[2].duration
    /\ Months(last.result) = config[2].duration

ResolvedMonths(content_type) ==
    IF EntriesFor(content_type) = {} THEN default_duration
    ELSE config[CHOOSE i \in EntriesFor(content_type) : TRUE].duration

\* what C2 says of the date returned
C2_Result ==
    last.op = "get_future_expire_date" =>
        LET n      == ResolvedMonths(request.version.content_type)
            index  == request.date.year * 12 + (request.date.month - 1) + n
            year   == index \div 12
            month  == (index % 12) + 1
            result == last.result
        IN  /\ ValidDate(result)
            /\ result.year = year /\ result.month = month
            /\ request.date.day <= DaysInMonth(year, month) => result.day = request.date.day
            /\ request.date.day > DaysInMonth(year, month) =>
                   result.day = DaysInMonth(year, month)

(***************************************************************************)
(* C2: get_future_expire_date returns the base date advanced by the        *)
(* resolved number of calendar months: the day of month is kept when the   *)
(* target month has it and is the target month's last day otherwise, the   *)
(* result is a valid date, and the call leaves the stored tables alone.    *)
(***************************************************************************)
C2_FutureExpireDate ==
    /\ []C2_Result
    /\ [][last'.op = "get_future_expire_date"
            => UNCHANGED <<default_duration, config, records>>]_vars

\* Jan 31 plus 13 configured months: the day is clamped to Feb 29 of a leap year.
C2_Witness ==
    /\ last.op = "get_future_expire_date"
    /\ request.date = [year |-> 2023, month |-> 1, day |-> 31]
    /\ ResolvedMonths(request.version.content_type) = 13
    /\ last.result = [year |-> 2024, month |-> 2, day |-> 29]

(***************************************************************************)
(* The ContentExpiry table.  A row carries its own fields (id, created_by, *)
(* expires) and those of its version that the filters read: the version's  *)
(* content type, state and author, and the polymorphic_ctype_id of the     *)
(* version's content (0 when the content model is not polymorphic).        *)
(* Versioning is attached to the base model of a polymorphic hierarchy, so *)
(* the version of polymorphic content holds the base model's content type. *)
(* expires is <<>> when no date is set and <<t>> for the tick t.           *)
(***************************************************************************)
get_base_polymorphic_model(content_type) == 1

ContentKinds ==
    {[content_type |-> get_base_polymorphic_model(c), polymorphic_ctype_id |-> c] :
        c \in PolymorphicTypes}
    \cup {[content_type |-> c, polymorphic_ctype_id |-> 0] :
        c \in ContentTypes \ PolymorphicTypes}

\* The primary key given to a new row: one more than the largest in the table
\* (rows are kept in pk order), 1 for an empty table.
NextPk(rows) == IF rows = <<>> THEN 1 ELSE rows[Len(rows)].id + 1

\* A version is created, and its expiry record with it; the record's author
\* is the version's.
CreateVersion(kind, state, user, expires) ==
    /\ Len(records) < MaxRecords
    /\ records' = Append(records,
            [id |-> NextPk(records),
             content_type |-> kind.content_type,
             polymorphic_ctype_id |-> kind.polymorphic_ctype_id,
             state |-> state,
             version_created_by |-> user,
             created_by |-> user,
             expires |-> expires])
    /\ last' = [op |-> "create_version"]
    /\ UNCHANGED <<default_duration, config, now, request, process_state>>

(***************************************************************************)
(* filters.py: SimpleListMultiselectFilter and VersionStateFilter          *)
(***************************************************************************)
value_as_list(GET, parameter_name) ==
    IF Truthy(GET, parameter_name) THEN Split(GET[parameter_name]) ELSE <<>>

InList(word, list) == \E i \in 1..Len(list) : list[i] = <<word>>

default_filter_value == PUBLISHED

show_all_param_value == "_all_"

\* A state filter without the _all_ sentinel: every value is a state name.
VersionStateFilter_queryset_no_sentinel(GET, queryset) ==
    IF ~Truthy(GET, "state")
    THEN Ok(SelectSeq(queryset, LAMBDA r : r.state = default_filter_value))
    ELSE Ok(SelectSeq(queryset, LAMBDA r : InList(r.state, Split(GET["state"]))))

\* A state filter without the default: no value, no filtering.
VersionStateFilter_queryset_no_default(GET, queryset) ==
    IF Truthy(GET, "state") /\ GET["state"] # <<"_all_">>
    THEN Ok(SelectSeq(queryset, LAMBDA r : InList(r.state, Split(GET["state"]))))
    ELSE Ok(queryset)

VersionStateFilter_queryset(GET, queryset) ==
    IF default_filter_value # ""
    THEN IF ~Truthy(GET, "state")
         THEN Ok(SelectSeq(queryset, LAMBDA r : r.state = default_filter_value))
         ELSE IF GET["state"] # <<"_all_">>
              THEN Ok(SelectSeq(queryset, LAMBDA r : InList(r.state, Split(GET["state"]))))
              ELSE Ok(queryset)
    ELSE IF Truthy(GET, "state")
         THEN Ok(SelectSeq(queryset, LAMBDA r : InList(r.state, Split(GET["state"]))))
         ELSE Ok(queryset)

CallVersionStateFilter ==
    /\ last' = [op |-> "VersionStateFilter.queryset",
                result |-> VersionStateFilter_queryset(request, records)]
    /\ UNCHANGED <<default_duration, config, records, now, request, process_state>>

(***************************************************************************)
(* The version state filter on its own: versions in every state, and every *)
(* value of the state parameter up to MaxParamLen lexemes.                 *)
(***************************************************************************)
MaxParamLen == 3

States == {VERSION_STATES[i] : i \in 1..Len(VERSION_STATES)}

StateAlphabet == States \cup {show_all_param_value, ",", "x"}

StateRequests ==
    {<<>>} \cup {[state |-> s] : s \in Strings(StateAlphabet, MaxParamLen)}

InitAdmin(requests) ==
    /\ expiry_changelist_queryset_filters = <<>>
    /\ cache = <<>>
    /\ default_duration \in {12}
    /\ config = <<>>
    /\ records = <<>>
    /\ now = StartTick
    /\ request \in requests
    /\ last = [op |-> "none"]

NextState ==
    \/ \E st \in States :
           CreateVersion([content_type |-> 3, polymorphic_ctype_id |-> 0], st, 1, <<>>)
    \/ CallVersionStateFilter

SpecState == InitAdmin(StateRequests) /\ [][NextState]_vars

(***************************************************************************)
(* What the claims about filters say of a result: it holds exactly the     *)
(* input records that satisfy a test, each once, in the input's order.     *)
(***************************************************************************)
IsSubsequence(rows, queryset) ==
    /\ \A i \in 1..Len(rows) : \E j \in 1..Len(queryset) : rows[i] = queryset[j]
    /\ \A i, j \in 1..Len(rows) : i < j => rows[i].id < rows[j].id

Exactly(result, queryset, Test(_)) ==
    /\ result.error = ""
    /\ IsSubsequence(result.rows, queryset)
    /\ \A j \in 1..Len(queryset) :
           (queryset[j].id \in Ids(result.rows)) <=> Test(queryset[j])

(***************************************************************************)
(* C3: with the state parameter absent or empty, VersionStateFilter        *)
(* returns exactly the published records.                                  *)
(***************************************************************************)
C3_DefaultPublished ==
    (last.op = "VersionStateFilter.queryset"
        /\ ("state" \notin DOMAIN request \/ request["state"] = <<>>))
    => Exactly(last.result, records, LAMBDA r : r.state = "published")

C3_Witness ==
    /\ last.op = "VersionStateFilter.queryset"
    /\ "state" \notin DOMAIN request
    /\ Len(records) = 2
    /\ records[1].state = "draft" /\ records[2].state = "published"
    /\ last.result = Ok(<<records[2]>>)

(***************************************************************************)
(* C4: with state=_all_, VersionStateFilter returns the input collection   *)
(* unchanged: the records of every state.                                  *)
(***************************************************************************)
C4_AllSentinel ==
    (last.op = "VersionStateFilter.queryset"
        /\ "state" \in DOMAIN request /\ request["state"] = <<"_all_">>)
    => last.result = Ok(records)

C4_Witness ==
    /\ last.op = "VersionStateFilter.queryset"
    /\ "state" \in DOMAIN request /\ request["state"] = <<"_all_">>
    /\ Len(records) = 2
    /\ records[1].state = "archived" /\ records[2].state = "draft"
    /\ last.result.rows = records

(***************************************************************************)
(* filters.py: ContentTypeFilter                                           *)
(***************************************************************************)
\* ContentType.objects.get_for_id(id) for the text of an id
get_for_id(content_type) ==
    IF ~IsInt(content_type) THEN Raise("ValueError")
    ELSE IF ToInt(content_type) \notin ContentTypes THEN Raise("DoesNotExist")
    ELSE Ok(<<ToInt(content_type)>>)

\* hasattr(content_type_model, "polymorphic_ctype")
has_polymorphic_ctype(content_type) == content_type \in PolymorphicTypes

\* A Q object holds for a record
QHolds(q, r) ==
    IF q.lookup = "id__in" THEN r.id \in q.value
    ELSE r.content_type = q.value

\* A filter for a polymorphic type that compares the version's content type.
ContentTypeQ_version_only(content_type_obj, queryset) ==
    [lookup |-> "version__content_type", value |-> content_type_obj]

\* the Q object the loop body appends for one content type
ContentTypeQ(content_type_obj, queryset) ==
    IF has_polymorphic_ctype(content_type_obj)
    THEN LET base_content_type == get_base_polymorphic_model(content_type_obj)
             top_level ==
                 SelectSeq(queryset, LAMBDA r : r.content_type = base_content_type)
             content_type_inclusion_list ==
                 {top_level[i].id : i \in
                     {k \in 1..Len(top_level) :
                         top_level[k].polymorphic_ctype_id = content_type_obj}}
         IN  [lookup |-> "id__in", value |-> content_type_inclusion_list]
    ELSE [lookup |-> "version__content_type", value |-> content_type_obj]

\* the loop over content_types.split(','): the Q objects, or the first exception
RECURSIVE ContentTypeFilters(_, _)
ContentTypeFilters(content_types, queryset) ==
    IF content_types = <<>> THEN [error |-> "", filters |-> <<>>]
    ELSE LET content_type_obj == get_for_id(Head(content_types))
         IN  IF content_type_obj.error # ""
             THEN [error |-> content_type_obj.error, filters |-> <<>>]
             ELSE LET rest == ContentTypeFilters(Tail(content_types), queryset)
                  IN  IF rest.error # "" THEN rest
                      ELSE [error |-> "",
                            filters |-> <<ContentTypeQ(content_type_obj.rows[1], queryset)>>
                                            \o rest.filters]

ContentTypeFilter_queryset(GET, queryset) ==
    IF ~Truthy(GET, "content_type") THEN Ok(queryset)
    ELSE LET built == ContentTypeFilters(Split(GET["content_type"]), queryset)
         IN  IF built.error # "" THEN Raise(built.error)
             ELSE Ok(SelectSeq(queryset,
                     LAMBDA r : \E i \in 1..Len(built.filters) :
                                    QHolds(built.filters[i], r)))

CallContentTypeFilter ==
    /\ last' = [op |-> "ContentTypeFilter.queryset",
                result |-> ContentTypeFilter_queryset(request, records)]
    /\ UNCHANGED <<default_duration, config, records, now, request, process_state>>

(***************************************************************************)
(* The content type filter on its own: content of every kind, and every    *)
(* value of the content_type parameter up to MaxParamLen lexemes.  9 is    *)
(* the id of no content type.                                              *)
(***************************************************************************)
ContentTypeAlphabet == {"1", "2", "3", "4", "9", ",", "x"}

ContentTypeRequests ==
    {<<>>} \cup
    {[content_type |-> s] : s \in Strings(ContentTypeAlphabet, MaxParamLen)}

NextContentType ==
    \/ \E k \in ContentKinds : CreateVersion(k, "published", 1, <<>>)
    \/ CallContentTypeFilter

SpecContentType == InitAdmin(ContentTypeRequests) /\ [][NextContentType]_vars

SelectedIds(s) == {ToInt(Split(s)[i]) : i \in 1..Len(Split(s))}

IsSelection(s) ==
    \A i \in 1..Len(Split(s)) :
        IsInt(Split(s)[i]) /\ ToInt(Split(s)[i]) \in ContentTypes

MatchesContentType(r, id) ==
    IF r.polymorphic_ctype_id # 0 THEN r.polymorphic_ctype_id = id
    ELSE r.content_type = id

(***************************************************************************)
(* C5: for a selection of content type ids, ContentTypeFilter returns      *)
(* exactly the records matching one of the ids: a record of a polymorphic  *)
(* model matches the id of its content's concrete subtype, any other       *)
(* record the id of its version's content type.  With no selection it      *)
(* returns the input unfiltered.                                           *)
(***************************************************************************)
C5_ContentTypeUnion ==
    last.op = "ContentTypeFilter.queryset" =>
        /\ ("content_type" \notin DOMAIN request \/ request["content_type"] = <<>>)
               => last.result = Ok(records)
        /\ ("content_type" \in DOMAIN request /\ request["content_type"] # <<>>
                /\ IsSelection(request["content_type"]))
               => Exactly(last.result, records,
                      LAMBDA r : \E id \in SelectedIds(request["content_type"]) :
                                     MatchesContentType(r, id))

\* the concrete subtype 2 and the plain type 3 are selected: the record of the
\* polymorphic base type 1 is left out
C5_Witness ==
    /\ last.op = "ContentTypeFilter.queryset"
    /\ "content_type" \in DOMAIN request
    /\ request["content_type"] = <<"2", ",", "3">>
    /\ Len(records) = 2
    /\ records[1].polymorphic_ctype_id = 1
    /\ records[2].polymorphic_ctype_id = 2
    /\ last.result = Ok(<<records[2]>>)

(***************************************************************************)
(* C9: a malformed or missing filter value is treated as no filter and is  *)
(* never raised as an error: ContentTypeFilter.queryset returns a result   *)
(* for every value of its parameter.                                       *)
(***************************************************************************)
C9_NeverRaises ==
    last.op = "ContentTypeFilter.queryset" => last.result.error = ""

(***************************************************************************)
(* helpers.py: get_rangefilter_expires_default reads the clock twice; the  *)
(* clock has advanced by drift ticks between the two readings.             *)
(***************************************************************************)
get_rangefilter_expires_default(drift) ==
    LET start_date == now - timedelta(DefaultWindowDays)
        end_date   == now + drift
    IN  <<start_date, end_date>>

(***************************************************************************)
(* filters.py: ContentExpiryDateRangeFilter.  The text of a range bound is *)
(* empty, a date, or junk that is no date.                                 *)
(***************************************************************************)
EmptyText == [text |-> "", date |-> 0]

JunkText == [text |-> "junk", date |-> 0]

DateText(date) == [text |-> "date", date |-> date]

InRange(r, gte, lte) ==
    r.expires # <<>> /\ gte <= r.expires[1] /\ r.expires[1] <= lte

\* rangefilter's DateRangeFilter.queryset: the form is bound to the range
\* parameters present; an invalid form filters nothing, a valid one filters
\* by each bound that holds a date.
DateRangeFilter_queryset(GET, queryset) ==
    LET keys == {"expires__range__gte", "expires__range__lte"} \cap DOMAIN GET
        is_valid == keys # {} /\ \A k \in keys : GET[k].text # "junk"
        has_gte == Present(GET, "expires__range__gte")
                       /\ GET["expires__range__gte"].text = "date"
        has_lte == Present(GET, "expires__range__lte")
                       /\ GET["expires__range__lte"].text = "date"
    IN  IF ~is_valid THEN queryset
        ELSE SelectSeq(queryset, LAMBDA r :
                 /\ has_gte => (r.expires # <<>> /\
                        r.expires[1] >= combine_min(GET["expires__range__gte"].date))
                 /\ has_lte => (r.expires # <<>> /\
                        r.expires[1] <= combine_max(GET["expires__range__lte"].date)))

\* A filter that applies the default window whatever the request holds.
ContentExpiryDateRangeFilter_queryset_always_default(GET, queryset, drift) ==
    LET default == get_rangefilter_expires_default(drift)
    IN  Ok(SelectSeq(DateRangeFilter_queryset(GET, queryset),
               LAMBDA r : InRange(r, default[1], default[2])))

ContentExpiryDateRangeFilter_queryset(GET, queryset, drift) ==
    LET filtered == DateRangeFilter_queryset(GET, queryset)
    IN  IF ~\E seed \in DOMAIN GET :
               seed \in {"expires__range__gte", "expires__range__lte"}
        THEN LET default == get_rangefilter_expires_default(drift)
             IN  Ok(SelectSeq(filtered, LAMBDA r : InRange(r, default[1], default[2])))
        ELSE Ok(filtered)

\* The default window is read only when the request holds no range.
ReadsClock(GET) ==
    ~\E seed \in DOMAIN GET : seed \in {"expires__range__gte", "expires__range__lte"}

CallDateRangeFilter(drift) ==
    /\ drift = 0 \/ (ReadsClock(request) /\ now < StartTick + MaxTicks)
    /\ last' = [op |-> "ContentExpiryDateRangeFilter.queryset",
                called_at |-> now,
                result |-> ContentExpiryDateRangeFilter_queryset(request, records, drift)]
    /\ now' = now + drift
    /\ UNCHANGED <<default_duration, config, records, request, process_state>>

(***************************************************************************)
(* The date range filter on its own: expiry dates around the ends of the   *)
(* default window and of the days an explicit range names.                 *)
(***************************************************************************)
WindowStart == StartTick - timedelta(DefaultWindowDays)

ExpiryTicks ==
    {WindowStart - 1, WindowStart, WindowStart + 1,
     StartTick - 1, StartTick, StartTick + 1, StartTick + 2}

Expiries == {<<>>} \cup {<<t>> : t \in ExpiryTicks}

RangeTexts ==
    {EmptyText, JunkText,
     DateText(WindowStart \div TicksPerDay), DateText(StartTick \div TicksPerDay)}

DateRangeRequests ==
    {<<>>}
    \cup {[expires__range__gte |-> g] : g \in RangeTexts}
    \cup {[expires__range__lte |-> l] : l \in RangeTexts}
    \cup {[expires__range__gte |-> g, expires__range__lte |-> l] :
             g \in RangeTexts, l \in RangeTexts}

NextDateRange ==
    \/ \E e \in Expiries :
           CreateVersion([content_type |-> 3, polymorphic_ctype_id |-> 0],
                         "published", 1, e)
    \/ Tick
    \/ \E drift \in {0, 1} : CallDateRangeFilter(drift)

SpecDateRange == InitAdmin(DateRangeRequests) /\ [][NextDateRange]_vars

(***************************************************************************)
(* C6: with no date range in the request, the date range filter returns    *)
(* exactly the records whose expiry lies in the closed window from 30 days *)
(* before now to now (the clock as read when the call starts and when it   *)
(* ends); with an explicit range of two dates the default window is not    *)
(* applied and the result is exactly the records that expire on a day of   *)
(* the range.                                                              *)
(***************************************************************************)
C6_DefaultWindow ==
    last.op = "ContentExpiryDateRangeFilter.queryset" =>
        /\ DOMAIN request = {} =>
               Exactly(last.result, records, LAMBDA r :
                   /\ r.expires # <<>>
                   /\ last.called_at - DefaultWindowDays * TicksPerDay <= r.expires[1]
                   /\ r.expires[1] <= now)
        /\ (DOMAIN request = {"expires__range__gte", "expires__range__lte"}
                /\ request["expires__range__gte"].text = "date"
                /\ request["expires__range__lte"].text = "date")
               => Exactly(last.result, records, LAMBDA r :
                   /\ r.expires # <<>>
                   /\ request["expires__range__gte"].date <= r.expires[1] \div TicksPerDay
                   /\ r.expires[1] \div TicksPerDay <= request["expires__range__lte"].date)

\* a record that expires when the window starts is kept, the one that expires a
\* tick after the call is not
C6_Witness ==
    /\ last.op = "ContentExpiryDateRangeFilter.queryset"
    /\ DOMAIN request = {}
    /\ Len(records) = 2
    /\ records[1].expires = <<last.called_at - DefaultWindowDays * TicksPerDay>>
    /\ records[2].expires = <<now + 1>>
    /\ last.result = Ok(<<records[1]>>)

(***************************************************************************)
(* filters.py: AuthorFilter                                                *)
(***************************************************************************)
UserTable == <<1, 2, 3>>        \* the pks of the User rows

\* the option values offered: the users who authored a version of the queryset
AuthorFilter_lookups(queryset) ==
    LET authors == {queryset[i].version_created_by : i \in 1..Len(queryset)}
        users == SelectSeq(UserTable, LAMBDA pk : pk \in authors)
    IN  [i \in 1..Len(users) |-> ToStr(users[i])]

\* An author filter that compares the record's id with the value.
AuthorFilter_queryset_by_id(GET, queryset) ==
    IF Truthy(GET, "created_by")
    THEN IF ~IsInt(GET["created_by"]) THEN Raise("ValueError")
         ELSE Ok(SelectSeq(queryset, LAMBDA r : r.id = ToInt(GET["created_by"])))
    ELSE Ok(queryset)

AuthorFilter_queryset(GET, queryset) ==
    IF Truthy(GET, "created_by")
    THEN IF ~IsInt(GET["created_by"]) THEN Raise("ValueError")
         ELSE Ok(SelectSeq(queryset,
                     LAMBDA r : r.created_by = ToInt(GET["created_by"])))
    ELSE Ok(queryset)

CallAuthorFilter ==
    /\ last' = [op |-> "AuthorFilter.queryset",
                lookups |-> AuthorFilter_lookups(records),
                result |-> AuthorFilter_queryset(request, records)]
    /\ UNCHANGED <<default_duration, config, records, now, request, process_state>>

(***************************************************************************)
(* The author filter on its own: versions by every user, and every value   *)
(* of the created_by parameter up to MaxParamLen lexemes.                  *)
(***************************************************************************)
Users == {UserTable[i] : i \in 1..Len(UserTable)}

AuthorAlphabet == {"1", "2", "3", ",", "x"}

AuthorRequests ==
    {<<>>} \cup {[created_by |-> s] : s \in Strings(AuthorAlphabet, MaxParamLen)}

NextAuthor ==
    \/ \E u \in Users :
           CreateVersion([content_type |-> 3, polymorphic_ctype_id |-> 0],
                         "published", u, <<>>)
    \/ CallAuthorFilter

SpecAuthor == InitAdmin(AuthorRequests) /\ [][NextAuthor]_vars

(***************************************************************************)
(* C8: given an author id, AuthorFilter returns exactly the records whose  *)
(* version that author created; the lookups offer exactly the users who    *)
(* created the version of some record, so the author of an offered value   *)
(* has records and selecting the value returns them; with no author given  *)
(* the collection is returned unfiltered.                                  *)
(***************************************************************************)
C8_AuthorFilter ==
    last.op = "AuthorFilter.queryset" =>
        /\ ("created_by" \notin DOMAIN request \/ request["created_by"] = <<>>)
               => last.result = Ok(records)
        /\ ("created_by" \in DOMAIN request /\ IsInt(request["created_by"]))
               => Exactly(last.result, records,
                      LAMBDA r : r.version_created_by = ToInt(request["created_by"]))
        /\ \A u \in Users :
               (\E i \in 1..Len(last.lookups) : last.lookups[i] = ToStr(u))
                   <=> (\E j \in 1..Len(records) : records[j].version_created_by = u)
        /\ ("created_by" \in DOMAIN request
                /\ \E i \in 1..Len(last.lookups) : last.lookups[i] = request["created_by"])
               => last.result.rows # <<>>

\* the author of the second record is offered and selected
C8_Witness ==
    /\ last.op = "AuthorFilter.queryset"
    /\ "created_by" \in DOMAIN request /\ request["created_by"] = <<"2">>
    /\ Len(records) = 2
    /\ records[1].version_created_by = 1 /\ records[2].version_created_by = 2
    /\ last.lookups = <<(<<"1">>), (<<"2">>)>>
    /\ last.result = Ok(<<records[2]>>)

(***************************************************************************)
(* admin.py: the changelist of ContentExpiryAdmin.  Django's ChangeList    *)
(* builds the filters of list_filter, keeps those that have output (a      *)
(* SimpleListFilter without lookups has none), lets each in turn narrow    *)
(* the queryset and orders the result by descending pk.                    *)
(***************************************************************************)
RECURSIVE Reverse(_)
Reverse(rows) ==
    IF rows = <<>> THEN <<>> ELSE Append(Reverse(Tail(rows)), Head(rows))

\* A changelist whose filters each start again from the root queryset.
ChangeList_get_queryset_last_filter_only(GET, root_queryset, drift) ==
    IF AuthorFilter_lookups(root_queryset) = <<>> THEN Ok(Reverse(root_queryset))
    ELSE LET by_author == AuthorFilter_queryset(GET, root_queryset)
         IN  IF by_author.error # "" THEN by_author
             ELSE Ok(Reverse(by_author.rows))

ChangeList_get_queryset(GET, root_queryset, drift) ==
    LET by_type == ContentTypeFilter_queryset(GET, root_queryset)
    IN  IF by_type.error # "" THEN by_type
        ELSE LET by_date ==
                     ContentExpiryDateRangeFilter_queryset(GET, by_type.rows, drift)
                 by_state == VersionStateFilter_queryset(GET, by_date.rows)
             IN  IF AuthorFilter_lookups(root_queryset) = <<>>
                 THEN Ok(Reverse(by_state.rows))
                 ELSE LET by_author == AuthorFilter_queryset(GET, by_state.rows)
                      IN  IF by_author.error # "" THEN by_author
                          ELSE Ok(Reverse(by_author.rows))

get_exported_queryset(GET, drift) == ChangeList_get_queryset(GET, records, drift)

CallChangelist(drift) ==
    /\ drift = 0 \/ (ReadsClock(request) /\ now < StartTick + MaxTicks)
    /\ last' = [op |-> "changelist", called_at |-> now,
                result |-> ChangeList_get_queryset(request, records, drift)]
    /\ now' = now + drift
    /\ UNCHANGED <<default_duration, config, records, request, process_state>>

(***************************************************************************)
(* admin.py: export_to_csv.  The response is the sequence of rows written. *)
(***************************************************************************)
field_names ==
    <<"Title", "Content Type", "Expiry Date", "Version State", "Version Author">>

\* the text strftime makes of a date, or the empty text
_format_export_datetime(expires) ==
    IF expires # <<>> THEN [format |-> "strftime", of |-> expires[1]]
    ELSE [format |-> "", of |-> 0]

\* ContentType.objects.get_for_model(row.version.content)
content_type_of_content(row) ==
    IF has_polymorphic_ctype(row.content_type) THEN row.polymorphic_ctype_id
    ELSE row.content_type

csv_row(row) ==
    [title |-> row.id,
     content_type |-> content_type_of_content(row),
     expiry_date |-> _format_export_datetime(row.expires),
     version_state |-> row.state,
     version_author |-> row.version_created_by]

\* An export that writes the header only when there are rows to follow.
export_to_csv_no_header_when_empty(GET, drift) ==
    LET queryset == get_exported_queryset(GET, drift)
    IN  IF queryset.error # "" THEN [error |-> queryset.error, body |-> <<>>]
        ELSE IF queryset.rows = <<>> THEN [error |-> "", body |-> <<>>]
        ELSE [error |-> "",
              body |-> <<field_names>> \o
                       [i \in 1..Len(queryset.rows) |-> csv_row(queryset.rows[i])]]

export_to_csv(GET, drift) ==
    LET queryset == get_exported_queryset(GET, drift)
    IN  IF queryset.error # "" THEN [error |-> queryset.error, body |-> <<>>]
        ELSE [error |-> "",
              body |-> <<field_names>> \o
                       [i \in 1..Len(queryset.rows) |-> csv_row(queryset.rows[i])]]

CallExportToCsv(drift) ==
    /\ drift = 0 \/ (ReadsClock(request) /\ now < StartTick + MaxTicks)
    /\ last' = [op |-> "export_to_csv", called_at |-> now,
                result |-> export_to_csv(request, drift)]
    /\ now' = now + drift
    /\ UNCHANGED <<default_duration, config, records, request, process_state>>

(***************************************************************************)
(* The changelist and its export: versions that differ in content type,    *)
(* state, author and expiry date, and requests that combine a value for    *)
(* each of the four filters.                                               *)
(***************************************************************************)
ListedKinds ==
    {[content_type |-> 1, polymorphic_ctype_id |-> 2],
     [content_type |-> 3, polymorphic_ctype_id |-> 0]}

ListedExpiries == {<<StartTick - 1>>, <<StartTick + TicksPerDay>>}

With(GET, name, values) ==
    {GET} \cup {[k \in DOMAIN GET \cup {name} |->
                    IF k = name THEN v ELSE GET[k]] : v \in values}

WithRange(GET, ranges) ==
    {GET} \cup {[k \in DOMAIN GET \cup {"expires__range__gte", "expires__range__lte"} |->
                    IF k = "expires__range__gte" THEN DateText(rg[1])
                    ELSE IF k = "expires__range__lte" THEN DateText(rg[2])
                    ELSE GET[k]] : rg \in ranges}

ChangelistRequests ==
    LET r1 == With(<<>>, "content_type", {<<"4", ",", "2">>})
        r2 == UNION {With(g, "state", {<<"_all_">>, <<"archived", ",", "draft">>})
                        : g \in r1}
        r3 == UNION {With(g, "created_by", {<<"2">>}) : g \in r2}
        r4 == UNION {WithRange(g, {<<(StartTick \div TicksPerDay) + 1,
                                    (StartTick \div TicksPerDay) + 1>>}) : g \in r3}
    IN  r4 \cup {[content_type |-> <<"9">>], [created_by |-> <<"x">>]}

NextChangelist ==
    \/ \E k \in ListedKinds, st \in {"draft", "published"}, u \in {1, 2},
          e \in ListedExpiries : CreateVersion(k, st, u, e)
    \/ \E drift \in {0, 1} : CallChangelist(drift)
    \/ \E drift \in {0, 1} : CallExportToCsv(drift)

Spec == InitAdmin(ChangelistRequests) /\ [][NextChangelist]_vars

(***************************************************************************)
(* What it is for a record to satisfy each filter of a request, said of    *)
(* the record alone.                                                       *)
(***************************************************************************)
NoValue(name) == name \notin DOMAIN request \/ request[name] = <<>>

SatisfiesContentType(r) ==
    NoValue("content_type")
    \/ \E id \in SelectedIds(request["content_type"]) : MatchesContentType(r, id)

SatisfiesState(r) ==
    IF NoValue("state") THEN r.state = "published"
    ELSE IF request["state"] = <<"_all_">> THEN TRUE
    ELSE \E i \in 1..Len(Split(request["state"])) :
             Split(request["state"])[i] = <<r.state>>

SatisfiesAuthor(r) ==
    NoValue("created_by") \/ r.version_created_by = ToInt(request["created_by"])

SatisfiesDateRange(r) ==
    /\ r.expires # <<>>
    /\ IF "expires__range__gte" \in DOMAIN request
       THEN /\ request["expires__range__gte"].date <= r.expires[1] \div TicksPerDay
            /\ r.expires[1] \div TicksPerDay <= request["expires__range__lte"].date
       ELSE /\ last.called_at - DefaultWindowDays * TicksPerDay <= r.expires[1]
            /\ r.expires[1] <= now

SatisfiesAll(r) ==
    /\ SatisfiesContentType(r)
    /\ SatisfiesState(r)
    /\ SatisfiesAuthor(r)
    /\ SatisfiesDateRange(r)

Satisfying == {j \in 1..Len(records) : SatisfiesAll(records[j])}

ValidSelections ==
    /\ NoValue("content_type") \/ IsSelection(request["content_type"])
    /\ NoValue("created_by") \/ IsInt(request["created_by"])

(***************************************************************************)
(* C7: the filters of the changelist compose as a conjunction across the   *)
(* filter types and a disjunction within the values of a multi-select      *)
(* filter: a record is in the changelist's result iff it satisfies the     *)
(* content type, state, author and date range filters, and it satisfies a  *)
(* multi-select filter iff it matches one of the selected values.          *)
(***************************************************************************)
C7_Composition ==
    (last.op = "changelist" /\ ValidSelections) =>
        /\ last.result.error = ""
        /\ Len(last.result.rows) = Cardinality(Ids(last.result.rows))
        /\ \A i \in 1..Len(last.result.rows) :
               \E j \in 1..Len(records) : last.result.rows[i] = records[j]
        /\ \A j \in 1..Len(records) :
               (records[j].id \in Ids(last.result.rows)) <=> SatisfiesAll(records[j])

\* all four filters hold a value; the first record matches the second selected
\* content type and the second selected state, the second fails the state filter
\* only and the third the author filter only
C7_Witness ==
    /\ last.op = "changelist"
    /\ DOMAIN request = {"content_type", "state", "created_by",
                          "expires__range__gte", "expires__range__lte"}
    /\ request["content_type"] = <<"4", ",", "2">>
    /\ request["state"] = <<"archived", ",", "draft">>
    /\ Len(records) = 2
    /\ SatisfiesAll(records[1])
    /\ SatisfiesContentType(records[2]) /\ SatisfiesAuthor(records[2])
    /\ SatisfiesDateRange(records[2]) /\ ~SatisfiesState(records[2])
    /\ last.result = Ok(<<records[1]>>)

(***************************************************************************)
(* C10: export_to_csv writes the header row first and then one row for     *)
(* each record of the filtered changelist, in the changelist's order (by   *)
(* descending pk); for an empty collection it writes the header row only.  *)
(***************************************************************************)
C10_CsvExport ==
    (last.op = "export_to_csv" /\ ValidSelections) =>
        LET body == last.result.body
        IN  /\ last.result.error = ""
            /\ Len(body) = 1 + Cardinality(Satisfying)
            /\ body[1] = field_names
            /\ \A i \in 2..Len(body) :
                   /\ body[i].title \in Satisfying
                   /\ body[i].version_author = records[body[i].title].version_created_by
                   /\ body[i].version_state = records[body[i].title].state
                   /\ i > 2 => body[i - 1].title > body[i].title
            /\ Satisfying = {} => body = <<field_names>>

\* two records are exported, the later one first
C10_Witness ==
    /\ last.op = "export_to_csv"
    /\ ValidSelections
    /\ "state" \in DOMAIN request
    /\ Len(last.result.body) = 3
    /\ last.result.body[2].title = 2
    /\ last.result.body[3].title = 1

\* no record passes the filters and the header alone is written
C10_WitnessEmpty ==
    /\ last.op = "export_to_csv"
    /\ Len(records) = 2
    /\ Satisfying = {}
    /\ last.result.body = <<field_names>>

(***************************************************************************)
(* admin.py: what the admin lets a user do to expiry records.  The add and *)
(* delete views of the admin site refuse with PermissionDenied unless the  *)
(* model admin grants the permission; the change view saves the edited     *)
(* expiry date.  A record leaves the table only with its version (cascade).*)
(***************************************************************************)
MaxPk == 3              \* the largest primary key handed out

has_add_permission_granted(req) == TRUE

has_add_permission(req) == FALSE

has_delete_permission(req, obj) == FALSE

RemoveAt(rows, i) == SubSeq(rows, 1, i - 1) \o SubSeq(rows, i + 1, Len(rows))

add_view(expires) ==
    /\ Len(records) < MaxRecords
    /\ NextPk(records) <= MaxPk
    /\ IF has_add_permission(request)
       THEN /\ records' = Append(records,
                    [id |-> NextPk(records),
                     content_type |-> 3,
                     polymorphic_ctype_id |-> 0,
                     state |-> PUBLISHED,
                     version_created_by |-> request.user,
                     created_by |-> request.user,
                     expires |-> expires])
            /\ last' = [op |-> "add_view", error |-> ""]
       ELSE /\ records' = records
            /\ last' = [op |-> "add_view", error |-> "PermissionDenied"]
    /\ UNCHANGED <<default_duration, config, now, request, process_state>>

delete_view(i) ==
    /\ i \in 1..Len(records)
    /\ IF has_delete_permission(request, records[i])
       THEN /\ records' = RemoveAt(records, i)
            /\ last' = [op |-> "delete_view", error |-> ""]
       ELSE /\ records' = records
            /\ last' = [op |-> "delete_view", error |-> "PermissionDenied"]
    /\ UNCHANGED <<default_duration, config, now, request, process_state>>

change_view(i, expires) ==
    /\ i \in 1..Len(records)
    /\ records' = [records EXCEPT ![i].expires = expires]
    /\ last' = [op |-> "change_view", error |-> ""]
    /\ UNCHANGED <<default_duration, config, now, request, process_state>>

\* A version is deleted, and its expiry record with it.
DeleteVersion(i) ==
    /\ i \in 1..Len(records)
    /\ records' = RemoveAt(records, i)
    /\ last' = [op |-> "delete_version"]
    /\ UNCHANGED <<default_duration, config, now, request, process_state>>

PermissionRequests == [user : {1, 2}, is_superuser : BOOLEAN]

AdminExpiries == {<<>>, <<StartTick>>}

NextPermissions ==
    \/ \E u \in {1, 2}, e \in AdminExpiries :
           /\ NextPk(records) <= MaxPk
           /\ CreateVersion([content_type |-> 3, polymorphic_ctype_id |-> 0], PUBLISHED, u, e)
    \/ \E i \in 1..MaxRecords : DeleteVersion(i)
    \/ \E e \in AdminExpiries : add_view(e)
    \/ \E i \in 1..MaxRecords : delete_view(i)
    \/ \E i \in 1..MaxRecords, e \in AdminExpiries : change_view(i, e)

SpecPermissions == InitAdmin(PermissionRequests) /\ [][NextPermissions]_vars

\* C11: the add and delete views of the admin are refused for every request
\* and every record, and across any step the set of expiry records (their
\* primary keys) changes only when a version is created or deleted; an admin
\* operation, the change view included, leaves that set as it was.
C11_NoAdminAddDelete ==
    /\ [](last.op \in {"add_view", "delete_view"} => last.error = "PermissionDenied")
    /\ [][Ids(records') # Ids(records) \/ Len(records') # Len(records)
            => last'.op \in {"create_version", "delete_version"}]_vars

\* a deletion through the admin was refused while the record's version, and
\* so the record, is still there
C11_Witness ==
    /\ last.op = "delete_view"
    /\ last.error = "PermissionDenied"
    /\ Len(records) = MaxRecords

(***************************************************************************)
(* cms_config.py: ContentExpiryExtension.  An app configuration is a       *)
(* record of the attributes it defines; getattr reads one, or the default  *)
(* when the attribute is not defined.                                      *)
(***************************************************************************)
MaxFilters == 3         \* changelist queryset filters registered in all

getattr(obj, name, default) == IF name \in DOMAIN obj THEN obj[name] ELSE default

ContentExpiryExtension_init ==
    /\ expiry_changelist_queryset_filters' = <<>>
    /\ last' = [op |-> "__init__"]
    /\ UNCHANGED <<default_duration, config, records, now, request, cache>>

\* not the code: the filters are registered before the checks are made
configure_app_extend_first(cms_config) ==
    LET versioning_enabled == getattr(cms_config, "djangocms_versioning_enabled", FALSE)
        moderation_enabled == getattr(cms_config, "djangocms_moderation_enabled", FALSE)
        filters == getattr(cms_config,
                           "djangocms_content_expiry_changelist_queryset_filters", <<>>)
    IN  /\ Len(expiry_changelist_queryset_filters) + Len(filters) <= MaxFilters
        /\ expiry_changelist_queryset_filters' = expiry_changelist_queryset_filters \o filters
        /\ last' = [op |-> "configure_app", cms_config |-> cms_config,
                    error |-> IF versioning_enabled /\ moderation_enabled
                              THEN "" ELSE "ImproperlyConfigured"]
        /\ UNCHANGED <<default_duration, config, records, now, request, cache>>

configure_app(cms_config) ==
    LET versioning_enabled == getattr(cms_config, "djangocms_versioning_enabled", FALSE)
        moderation_enabled == getattr(cms_config, "djangocms_moderation_enabled", FALSE)
        filters == getattr(cms_config,
                           "djangocms_content_expiry_changelist_queryset_filters", <<>>)
    IN  /\ Len(expiry_changelist_queryset_filters) + Len(filters) <= MaxFilters
        /\ IF ~versioning_enabled
           THEN /\ last' = [op |-> "configure_app", cms_config |-> cms_config,
                            error |-> "ImproperlyConfigured",
                            message |-> "Versioning needs to be enabled for Content Expiry"]
                /\ UNCHANGED expiry_changelist_queryset_filters
           ELSE IF ~moderation_enabled
           THEN /\ last' = [op |-> "configure_app", cms_config |-> cms_config,
                            error |-> "ImproperlyConfigured",
                            message |-> "Moderation needs to be enabled for Content Expiry"]
                /\ UNCHANGED expiry_changelist_queryset_filters
           ELSE /\ last' = [op |-> "configure_app", cms_config |-> cms_config,
                            error |-> "", message |-> ""]
                /\ expiry_changelist_queryset_filters' =
                        expiry_changelist_queryset_filters \o filters
        /\ UNCHANGED <<default_duration, config, records, now, request, cache>>

FilterNames == {"content_expiry_site_page_content_excluded_set", "other_filter"}

\* The app configurations: each of the three attributes defined or not.
CmsConfigs ==
    LET c1 == With(<<>>, "djangocms_versioning_enabled", BOOLEAN)
        c2 == UNION {With(c, "djangocms_moderation_enabled", BOOLEAN) : c \in c1}
    IN  UNION {With(c, "djangocms_content_expiry_changelist_queryset_filters",
                    Strings(FilterNames, 2)) : c \in c2}

NextExtension ==
    \/ ContentExpiryExtension_init
    \/ \E cms_config \in CmsConfigs : configure_app(cms_config)

SpecExtension == InitAdmin({<<>>}) /\ [][NextExtension]_vars

Enabled(cms_config, name) == name \in DOMAIN cms_config /\ cms_config[name] = TRUE

\* C12: configure_app raises ImproperlyConfigured exactly when the app has
\* not both versioning and moderation enabled, and then leaves the registered
\* filters as they were; when both are enabled it raises nothing and the
\* registered filters become the old ones followed by the app's, in order.
C12_ConfigureApp ==
    [][last'.op = "configure_app" =>
        LET c == last'.cms_config
            both == /\ Enabled(c, "djangocms_versioning_enabled")
                    /\ Enabled(c, "djangocms_moderation_enabled")
            added == IF "djangocms_content_expiry_changelist_queryset_filters" \in DOMAIN c
                     THEN c.djangocms_content_expiry_changelist_queryset_filters
                     ELSE <<>>
        IN  /\ ~both => /\ last'.error = "ImproperlyConfigured"
                        /\ expiry_changelist_queryset_filters' =
                                expiry_changelist_queryset_filters
            /\ both => /\ last'.error = ""
                       /\ Len(expiry_changelist_queryset_filters') =
                            Len(expiry_changelist_queryset_filters) + Len(added)
                       /\ \A i \in 1..Len(expiry_changelist_queryset_filters) :
                            expiry_changelist_queryset_filters'[i] =
                                expiry_changelist_queryset_filters[i]
                       /\ \A i \in 1..Len(added) :
                            expiry_changelist_queryset_filters'[
                                Len(expiry_changelist_queryset_filters) + i] = added[i]
    ]_vars

\* an app without moderation, bringing two filters, was refused after another
\* app's filter had been registered, and that filter alone is registered
C12_Witness ==
    /\ last.op = "configure_app"
    /\ last.error = "ImproperlyConfigured"
    /\ Enabled(last.cms_config, "djangocms_versioning_enabled")
    /\ ~Enabled(last.cms_config, "djangocms_moderation_enabled")
    /\ "djangocms_content_expiry_changelist_queryset_filters" \in DOMAIN last.cms_config
    /\ Len(last.cms_config.djangocms_content_expiry_changelist_queryset_filters) = 2
    /\ expiry_changelist_queryset_filters = <<"other_filter">>

(***************************************************************************)
(* cms_config.py: content_expiry_site_page_content_excluded_set and the    *)
(* page-content exclusion cache.  The cache is read and written without    *)
(* arguments, so it holds one value for the process: <<>> when nothing is  *)
(* cached (or the entry has expired), <<pks>> for a cached list of primary *)
(* keys.  Rows here also carry the version's object_id and, for page       *)
(* content, the site of the page's node.                                   *)
(***************************************************************************)
Sites == {1, 2}

page_content_ctype == 4

\* A version of page content (on a site) or of other content is created, and
\* its expiry record with it; object_id is the content's key in its own table.
CreateContentVersion(content_type, site) ==
    /\ Len(records) < MaxRecords
    /\ NextPk(records) <= MaxPk
    /\ records' = Append(records,
            [id |-> NextPk(records),
             content_type |-> content_type,
             polymorphic_ctype_id |-> 0,
             object_id |-> 1 + Len(SelectSeq(records,
                                LAMBDA r : r.content_type = content_type)),
             site |-> site,
             state |-> PUBLISHED,
             version_created_by |-> 1,
             created_by |-> 1,
             expires |-> <<>>])
    /\ last' = [op |-> "create_version"]
    /\ UNCHANGED <<default_duration, config, now, request,
                   expiry_changelist_queryset_filters, cache>>

get_changelist_page_content_exclusion_cache == cache

set_changelist_page_content_exclusion_cache(value) == <<value>>

\* PageContent._original_manager.exclude(page__node__site=site).values('pk')
PageContent_exclude_site(site) ==
    {records[i].object_id : i \in
        {j \in 1..Len(records) : /\ records[j].content_type = page_content_ctype
                                 /\ records[j].site # site}}

\* What the call returns, and the cache it leaves.
content_expiry_site_page_content_excluded_set(site, queryset) ==
    LET cached == get_changelist_page_content_exclusion_cache
        miss == cached = <<>> \/ cached[1] = {}
        pagecontent_exclusion_list ==
            IF miss THEN PageContent_exclude_site(site) ELSE cached[1]
    IN  [rows |-> SelectSeq(queryset,
                    LAMBDA r : ~(/\ r.content_type = page_content_ctype
                                 /\ r.object_id \in pagecontent_exclusion_list)),
         cache |-> IF miss
                   THEN set_changelist_page_content_exclusion_cache(
                            pagecontent_exclusion_list)
                   ELSE cached]

CallSitePageContentExcludedSet(site) ==
    LET out == content_expiry_site_page_content_excluded_set(site, records)
    IN  /\ last' = [op |-> "content_expiry_site_page_content_excluded_set",
                    site |-> site, result |-> Ok(out.rows)]
        /\ cache' = out.cache
        /\ UNCHANGED <<default_duration, config, records, now, request,
                       expiry_changelist_queryset_filters>>

\* The cached entry reaches its expiry time.
CacheExpires ==
    /\ cache # <<>>
    /\ cache' = <<>>
    /\ last' = [op |-> "cache_expires"]
    /\ UNCHANGED <<default_duration, config, records, now, request,
                   expiry_changelist_queryset_filters>>

NextSiteExclusion ==
    \/ \E c \in {3, page_content_ctype}, site \in Sites : CreateContentVersion(c, site)
    \/ \E site \in Sites : CallSitePageContentExcludedSet(site)
    \/ CacheExpires

SpecSiteExclusion == InitAdmin({<<>>}) /\ [][NextSiteExclusion]_vars

OnSite(r, site) == r.content_type = page_content_ctype => r.site = site

\* C13: a call for a site returns the records minus exactly the page-content
\* records of another site, whatever calls for whatever sites came before.
C13_KeyedBySite ==
    last.op = "content_expiry_site_page_content_excluded_set" =>
        /\ IsSubsequence(last.result.rows, records)
        /\ Ids(last.result.rows) =
            {records[i].id : i \in {j \in 1..Len(records) : OnSite(records[j], last.site)}}

(***************************************************************************)
(* filters.py: _update_query, the query string behind the include and      *)
(* exclude links of a multi-select filter.  A query string is modelled by  *)
(* the parameters it carries (what request.GET holds once the link is      *)
(* followed); include and exclude are strings, <<>> when not given.        *)
(***************************************************************************)
\* ','.join(selected_list)
RECURSIVE Join(_)
Join(list) ==
    IF list = <<>> THEN <<>>
    ELSE IF Len(list) = 1 THEN list[1]
    ELSE list[1] \o <<",">> \o Join(Tail(list))

Contains(list, x) == \E i \in 1..Len(list) : list[i] = x

\* list.remove(x), for an x the list holds: the first one goes
Remove(list, x) ==
    LET i == CHOOSE k \in 1..Len(list) :
                list[k] = x /\ \A j \in 1..(k - 1) : list[j] # x
    IN  SubSeq(list, 1, i - 1) \o SubSeq(list, i + 1, Len(list))

\* changelist.get_query_string: the current parameters without those named
\* in remove, then with new_params set over them.
get_query_string(params, new_params, remove) ==
    [k \in (DOMAIN params \ remove) \cup DOMAIN new_params |->
        IF k \in DOMAIN new_params THEN new_params[k] ELSE params[k]]

OneParam(name, value) == [k \in {name} |-> value]

\* The end of both _update_query methods, from the selection they worked on.
CompileSelection(GET, parameter_name, list, include, exclude) ==
    LET included == IF include # <<>> /\ ~Contains(list, include)
                    THEN Append(list, include) ELSE list
        selected_list == IF exclude # <<>> /\ Contains(included, exclude)
                         THEN Remove(included, exclude) ELSE included
    IN  IF selected_list # <<>>
        THEN get_query_string(GET, OneParam(parameter_name, Join(selected_list)), {})
        ELSE get_query_string(GET, <<>>, {parameter_name})

\* not the code: include appends without looking at the selection
_update_query_always_append(GET, parameter_name, include, exclude) ==
    CompileSelection(GET, parameter_name,
        value_as_list(GET, parameter_name) \o (IF include # <<>> THEN <<include>> ELSE <<>>),
        <<>>, exclude)

_update_query(GET, parameter_name, include, exclude) ==
    CompileSelection(GET, parameter_name, value_as_list(GET, parameter_name),
                     include, exclude)

VersionStateFilter_update_query(GET, include, exclude) ==
    LET selected_list == value_as_list(GET, "state")
    IN  CompileSelection(GET, "state",
            IF Contains(selected_list, <<show_all_param_value>>)
            THEN Remove(selected_list, <<show_all_param_value>>)
            ELSE selected_list,
            include, exclude)

\* A choice's include or exclude link is built.  via is <<>>, or holds the
\* link that was followed to reach the request the new link is built on.
CallUpdateQuery(filter, include, exclude) ==
    /\ last' = [op |-> "_update_query", filter |-> filter,
                include |-> include, exclude |-> exclude,
                via |-> IF last.op = "follow" THEN <<last>> ELSE <<>>,
                query_string |->
                    IF filter = "state"
                    THEN VersionStateFilter_update_query(request, include, exclude)
                    ELSE _update_query(request, filter, include, exclude)]
    /\ UNCHANGED <<default_duration, config, records, now, request, process_state>>

\* The link just built is followed: its parameters are the next request's.
\* from is the request the link was built on.
FollowLink ==
    /\ last.op = "_update_query"
    /\ \A k \in DOMAIN last.query_string : Len(last.query_string[k]) <= MaxParamLen + 2
    /\ request' = last.query_string
    /\ last' = [op |-> "follow", filter |-> last.filter,
                include |-> last.include, exclude |-> last.exclude,
                from |-> request]
    /\ UNCHANGED <<default_duration, config, records, now, process_state>>

SelectionAlphabet == {"draft", PUBLISHED, show_all_param_value, ","}

LinkValues == {<<"draft">>, <<PUBLISHED>>}

MultiselectFilters == {"state", "content_type"}

SelectionRequests ==
    {<<>>} \cup {OneParam(f, v) : f \in MultiselectFilters,
                                 v \in Strings(SelectionAlphabet, MaxParamLen)}

NextSelection ==
    \/ \E f \in MultiselectFilters, v \in LinkValues : CallUpdateQuery(f, v, <<>>)
    \/ \E f \in MultiselectFilters, v \in LinkValues : CallUpdateQuery(f, <<>>, v)
    \/ FollowLink

SpecSelection == InitAdmin(SelectionRequests) /\ [][NextSelection]_vars

(***************************************************************************)
(* C14.  The selection a filter works on is the list of pieces of its      *)
(* parameter, for VersionStateFilter less one _all_; a link carries a list *)
(* when it sets the parameter to the list joined by commas, or removes the *)
(* parameter for the empty list, and keeps every other parameter.          *)
(***************************************************************************)
LessOneAll(list) ==
    IF Contains(list, <<show_all_param_value>>)
    THEN Remove(list, <<show_all_param_value>>) ELSE list

WorkedOn(GET, filter) ==
    IF filter = "state" THEN LessOneAll(value_as_list(GET, filter))
    ELSE value_as_list(GET, filter)

IsDistinct(list) == \A i, j \in 1..Len(list) : list[i] = list[j] => i = j

Carries(query_string, GET, filter, list) ==
    /\ \A k \in DOMAIN GET \ {filter} : k \in DOMAIN query_string /\ query_string[k] = GET[k]
    /\ DOMAIN query_string \subseteq DOMAIN GET \cup {filter}
    /\ IF list = <<>> THEN filter \notin DOMAIN query_string
       ELSE filter \in DOMAIN query_string /\ query_string[filter] = Join(list)

\* include=v adds v at the end unless it is selected, and adds no repeat
C14_Include ==
    (last.op = "_update_query" /\ last.include # <<>>) =>
        LET list == WorkedOn(request, last.filter)
            next == IF Contains(list, last.include) THEN list
                    ELSE Append(list, last.include)
        IN  /\ Carries(last.query_string, request, last.filter, next)
            /\ IsDistinct(list) => IsDistinct(next)

\* exclude=v removes v if it is selected; the empty selection removes the
\* parameter
C14_Exclude ==
    (last.op = "_update_query" /\ last.exclude # <<>>) =>
        LET list == WorkedOn(request, last.filter)
            next == IF Contains(list, last.exclude) THEN Remove(list, last.exclude)
                    ELSE list
        IN  /\ Carries(last.query_string, request, last.filter, next)
            /\ IsDistinct(list) => ~Contains(next, last.exclude)
            /\ next = <<>> => last.filter \notin DOMAIN last.query_string

\* the include link of v built on a request reached by the include link of v
\* is that request again
C14_IncludeTwice ==
    (/\ last.op = "_update_query" /\ last.include # <<>>
     /\ last.via # <<>> /\ last.via[1].filter = last.filter
     /\ last.via[1].include = last.include)
        => last.query_string = request

\* the same, for a selection started from that holds _all_ at most once
C14_IncludeTwiceOneAll ==
    (/\ last.op = "_update_query" /\ last.include # <<>>
     /\ last.via # <<>> /\ last.via[1].filter = last.filter
     /\ last.via[1].include = last.include
     /\ ~Contains(WorkedOn(last.via[1].from, last.filter), <<show_all_param_value>>))
        => last.query_string = request

\* the exclude link of v is built on a request reached by the include link of v
IncludedThenExcluded ==
    /\ last.op = "_update_query" /\ last.exclude # <<>>
    /\ last.via # <<>> /\ last.via[1].filter = last.filter
    /\ last.via[1].include = last.exclude

\* C14, as stated: include=v adds v only if it is not selected, twice as
\* once and without repeating a value; exclude=v removes v if selected;
\* include=v and then exclude=v give the selection started from; the empty
\* selection removes the parameter; VersionStateFilter first drops _all_.
C14_UpdateQuery ==
    /\ C14_Include
    /\ C14_Exclude
    /\ C14_IncludeTwice
    /\ IncludedThenExcluded =>
            value_as_list(last.query_string, last.filter) =
                value_as_list(last.via[1].from, last.filter)

\* C14, amended: as stated, but include=v and then exclude=v give the
\* selection started from when v was not selected in it, and in
\* VersionStateFilter that selection less the _all_ dropped by the two links;
\* and in VersionStateFilter including twice is including once when the
\* selection started from does not repeat _all_.
C14_UpdateQueryAmended ==
    /\ C14_Include
    /\ C14_Exclude
    /\ (last.op = "_update_query" => last.filter # "state") => C14_IncludeTwice
    /\ C14_IncludeTwiceOneAll
    /\ (/\ IncludedThenExcluded
        /\ ~Contains(value_as_list(last.via[1].from, last.filter), last.exclude))
            => Carries(last.query_string, last.via[1].from, last.filter,
                       IF last.filter = "state"
                       THEN LessOneAll(WorkedOn(last.via[1].from, last.filter))
                       ELSE WorkedOn(last.via[1].from, last.filter))

\* draft was included in the selection "published" and then excluded, and
\* the link built last carries "published" again
C14_Witness ==
    /\ IncludedThenExcluded
    /\ last.filter = "state"
    /\ last.exclude = <<"draft">>
    /\ last.via[1].from = [state |-> <<PUBLISHED>>]
    /\ request = [state |-> <<PUBLISHED, ",", "draft">>]
    /\ last.query_string = [state |-> <<PUBLISHED>>]

(***************************************************************************)
(* filters.py: VersionStateFilter.choices, the choices the changelist      *)
(* shows for the state filter next to the records the filter lets through. *)
(***************************************************************************)
_is_default(GET, filter_value) ==
    IF default_filter_value = filter_value /\ ~Present(GET, "state")
    THEN TRUE ELSE FALSE

_get_all_query_string(GET) ==
    IF default_filter_value # ""
    THEN get_query_string(GET, OneParam("state", <<show_all_param_value>>), {})
    ELSE get_query_string(GET, <<>>, {"state"})

_is_all_selected(GET) ==
    IF default_filter_value # "" /\ Present(GET, "state")
            /\ GET["state"] = <<show_all_param_value>>
    THEN TRUE
    ELSE IF default_filter_value = "" /\ ~Truthy(GET, "state")
    THEN TRUE
    ELSE FALSE

choices(GET) ==
    <<[selected |-> _is_all_selected(GET),
       query_string |-> _get_all_query_string(GET),
       display |-> "All",
       initial |-> TRUE]>>
    \o [i \in 1..Len(VERSION_STATES) |->
        LET lookup == VERSION_STATES[i]
        IN  [selected |-> InList(lookup, value_as_list(GET, "state"))
                            \/ _is_default(GET, lookup),
             query_string |-> get_query_string(GET, OneParam("state", <<lookup>>), {}),
             include_query_string |-> VersionStateFilter_update_query(GET, <<lookup>>, <<>>),
             exclude_query_string |-> VersionStateFilter_update_query(GET, <<>>, <<lookup>>),
             display |-> lookup]]

\* The changelist is shown: the records the state filter lets through, and
\* the filter's choices.  via is <<>>, or the state whose exclude link was
\* followed to reach the request.
CallStateFilterChangelist ==
    /\ last' = [op |-> "VersionStateFilter.choices",
                result |-> VersionStateFilter_queryset(request, records),
                choices |-> choices(request),
                via |-> IF last.op = "follow_exclude" THEN <<last.lookup>> ELSE <<>>]
    /\ UNCHANGED <<default_duration, config, records, now, request, process_state>>

\* The exclude link of a choice shown as selected is followed.
FollowExclude(i) ==
    /\ last.op = "VersionStateFilter.choices"
    /\ i \in 2..Len(last.choices)
    /\ last.choices[i].selected
    /\ request' = last.choices[i].exclude_query_string
    /\ last' = [op |-> "follow_exclude", lookup |-> last.choices[i].display]
    /\ UNCHANGED <<default_duration, config, records, now, process_state>>

ChoiceRequests ==
    {<<>>} \cup {OneParam("state", v) : v \in Strings(SelectionAlphabet, MaxParamLen)}

NextChoices ==
    \/ \E st \in {"archived", "draft", PUBLISHED} :
           CreateVersion([content_type |-> 3, polymorphic_ctype_id |-> 0], st, 1, <<>>)
    \/ CallStateFilterChangelist
    \/ \E i \in 2..(Len(VERSION_STATES) + 1) : FollowExclude(i)

SpecChoices == InitAdmin(ChoiceRequests) /\ [][NextChoices]_vars

ChoiceOf(state) ==
    last.choices[CHOOSE i \in 2..Len(last.choices) : last.choices[i].display = state]

\* C15: whatever the state parameter, a record is let through exactly when
\* "All" is shown selected or the choice of the record's state is, and a
\* choice whose exclude link was followed is no longer shown selected.
C15_ChoicesAgree ==
    last.op = "VersionStateFilter.choices" =>
        /\ last.result.error = ""
        /\ \A j \in 1..Len(records) :
            (records[j].id \in Ids(last.result.rows)) <=>
                (last.choices[1].selected \/ ChoiceOf(records[j].state).selected)
        /\ last.via # <<>> => ~ChoiceOf(last.via[1]).selected

====
